---------------------------- MODULE Spec2Model ----------------------------
(***************************************************************************)
(* A model of the CPU renderer of the grading-tone operator                *)
(* (src/OpenColorIO/ops/gradingtone/GradingToneOpCPU.cpp).                  *)
(*                                                                         *)
(* Pixel components are C++ floats.  They are modelled as fixed-point      *)
(* numbers: the integer n stands for the value n / Scale.  Three values    *)
(* outside the finite range stand for +Inf, -Inf and NaN, and every        *)
(* arithmetic operator and comparison treats them as IEEE-754 does.        *)
(***************************************************************************)
EXTENDS Integers, Sequences, FiniteSets, TLC

(***************************************************************************)
(* Number model                                                            *)
(***************************************************************************)
\* Fixed-point denominator: n stands for n / Scale.
Scale == 10000
\* Largest finite magnitude (in units of 1/Scale); results beyond it
\* overflow to an infinity, as a float result beyond FLT_MAX does.
MaxF == 1000000000

PosInf == MaxF + 1
NegInf == -(MaxF + 1)
NaN == MaxF + 2

IsNaN(a) == a = NaN
IsInf(a) == a = PosInf \/ a = NegInf

\* n is an integer the evaluation could form without overflow.
Sat(n) == IF n > MaxF THEN PosInf ELSE IF n < -MaxF THEN NegInf ELSE n

Abs(n) == IF n < 0 THEN -n ELSE n
Sgn(n) == IF n < 0 THEN -1 ELSE IF n > 0 THEN 1 ELSE 0

\* e(n / Scale) for a decimal literal n / d of the source.
Lit(n, d) == (n * Scale) \div d

FNeg(a) == IF IsNaN(a) THEN NaN ELSE -a

FAdd(a, b) ==
    IF IsNaN(a) \/ IsNaN(b) THEN NaN
    ELSE IF IsInf(a) THEN (IF IsInf(b) /\ b # a THEN NaN ELSE a)
    ELSE IF IsInf(b) THEN b
    ELSE Sat(a + b)

FSub(a, b) == FAdd(a, FNeg(b))

\* Product of two finite magnitudes, truncated to the grid.
MulMag(x, y) ==
    LET xh == x \div Scale
        xl == x % Scale
        yh == y \div Scale
        yl == y % Scale
    IN  IF xh > 0 /\ yh > 0 /\ xh > (MaxF \div Scale) \div yh
        THEN PosInf
        ELSE FAdd(FAdd(FAdd(xh * yh * Scale, xh * yl), xl * yh),
                  (xl * yl) \div Scale)

\* The magnitude mag with the sign s.
Signed(s, mag) == IF s < 0 THEN FNeg(mag) ELSE mag

FMul(a, b) ==
    IF IsNaN(a) \/ IsNaN(b) THEN NaN
    ELSE IF IsInf(a) \/ IsInf(b)
         THEN (IF a = 0 \/ b = 0 THEN NaN
               ELSE IF Sgn(a) * Sgn(b) > 0 THEN PosInf ELSE NegInf)
    ELSE Signed(Sgn(a) * Sgn(b), MulMag(Abs(a), Abs(b)))

\* Quotient of two finite magnitudes, y > 0, truncated to the grid.
DivMag(x, y) ==
    LET q == x \div y
        r == x % y
        fr == IF r <= MaxF \div Scale
              THEN (r * Scale) \div y
              ELSE LET f == r \div (y \div Scale)
                   IN  IF f >= Scale THEN Scale - 1 ELSE f
    IN  IF q > MaxF \div Scale THEN PosInf ELSE Sat(q * Scale + fr)

FDiv(a, b) ==
    IF IsNaN(a) \/ IsNaN(b) THEN NaN
    ELSE IF IsInf(a)
         THEN (IF IsInf(b) THEN NaN
               ELSE IF Sgn(a) * (IF b < 0 THEN -1 ELSE 1) > 0 THEN PosInf ELSE NegInf)
    ELSE IF IsInf(b) THEN 0
    ELSE IF b = 0
         THEN (IF a = 0 THEN NaN ELSE IF a > 0 THEN PosInf ELSE NegInf)
    ELSE Signed(Sgn(a) * Sgn(b), DivMag(Abs(a), Abs(b)))

\* The comparisons of floats: any comparison with a NaN is false.
FLt(a, b) == ~IsNaN(a) /\ ~IsNaN(b) /\ a < b
FGt(a, b) == FLt(b, a)

\* std::min(a, b) is (b < a) ? b : a, std::max(a, b) is (a < b) ? b : a.
FMin(a, b) == IF FLt(b, a) THEN b ELSE a
FMax(a, b) == IF FLt(a, b) THEN b ELSE a

RECURSIVE ISqrtBits(_, _, _)
\* Largest r with r * r <= n, found bit by bit from 2^b down.
ISqrtBits(n, r, b) ==
    IF b = 0 THEN r
    ELSE LET c == r + b \div 2
         IN  IF b \div 2 > 0 /\ c <= 46340 /\ c * c <= n
             THEN ISqrtBits(n, c, b \div 2)
             ELSE ISqrtBits(n, r, b \div 2)

ISqrt(n) == ISqrtBits(n, 0, 65536)

\* sqrtf
FSqrt(a) ==
    IF IsNaN(a) THEN NaN
    ELSE IF a < 0 THEN NaN
    ELSE IF a = PosInf THEN PosInf
    ELSE IF a <= MaxF \div Scale THEN ISqrt(a * Scale)
    ELSE ISqrt(a) * ISqrt(Scale)

RECURSIVE Log2Up(_), Log2Down(_)
\* a >= Scale: the integer part by halving, the fraction linear in the mantissa.
Log2Up(a) == IF a >= 2 * Scale THEN Scale + Log2Up(a \div 2) ELSE a - Scale
\* 0 < a < Scale
Log2Down(a) == IF a < Scale THEN Log2Down(2 * a) - Scale ELSE a - Scale

\* log2 of a float (1/log(2) * std::log(x), sseLog2(x)).
FLog2(a) ==
    IF IsNaN(a) THEN NaN
    ELSE IF a < 0 THEN NaN
    ELSE IF a = 0 THEN NegInf
    ELSE IF a = PosInf THEN PosInf
    ELSE IF a >= Scale THEN Log2Up(a) ELSE Log2Down(a)

RECURSIVE TwoTo(_)
TwoTo(k) == IF k = 0 THEN 1 ELSE 2 * TwoTo(k - 1)

\* 2 to the power of a float (std::pow(2.0f, x), ssePower(2, x)).
FPow2(a) ==
    IF IsNaN(a) THEN NaN
    ELSE IF a = PosInf THEN PosInf
    ELSE IF a = NegInf THEN 0
    ELSE LET k == a \div Scale
             mant == Scale + (a % Scale)
         IN  IF k >= 0
             THEN (IF k > 16 THEN PosInf ELSE Sat(mant * TwoTo(k)))
             ELSE (IF k < -30 THEN 0 ELSE mant \div TwoTo(-k))


(***************************************************************************)
(* Literals of the source                                                  *)
(***************************************************************************)
One == Lit(1, 1)
Two == Lit(2, 1)
Four == Lit(4, 1)
Half == Lit(5, 10)

\* RGBMChannel
R == 0
G == 1
B == 2
M == 3

\* Index of the alpha component of a pixel.
A == 3

RECURSIVE ArrFrom(_, _)
ArrFrom(s, k) ==
    IF k >= Len(s) THEN (k - 1) :> s[k] ELSE ((k - 1) :> s[k]) @@ ArrFrom(s, k + 1)

\* A zero-based array from a tuple.
Arr(s) == ArrFrom(s, 1)

\* A pixel: four floats.
Px(r, g, b, a) == (0 :> r) @@ (1 :> g) @@ (2 :> b) @@ (3 :> a)

(***************************************************************************)
(* float3 and the setOnLimit / Sqrt / Set templates.  A float3 is a        *)
(* function on 0..2; every float3 operator of the source acts on each      *)
(* component by itself.                                                    *)
(***************************************************************************)
\* setOnLimit<float>, and float3::setOnLimit on one component.
setOnLimit(val, limit, below, above) == IF FLt(val, limit) THEN below ELSE above

\* Set<float>: writes out[channel].
SetScalar(channel, out, val) ==
    [out |-> [out EXCEPT ![channel] = val], wr |-> {channel}]

\* Set<float3>: writes out[0], out[1], out[2] from the triple val.
SetTriple(out, val) ==
    [out |-> Px(val[0], val[1], val[2], out[3]), wr |-> {0, 1, 2}]

\* Set(channel, out, val): the float instantiation for a channel other than M,
\* the float3 instantiation for M; val holds the value of each component the
\* instantiation computes.
Set(channel, out, val) ==
    IF channel # M THEN SetScalar(channel, out, val[channel]) ELSE SetTriple(out, val)

\* The components of the pixel a call for the channel computes on: one float
\* (float t = out[channel]) or a float3 (float3 t{ out }).
Lanes(channel) == IF channel # M THEN {channel} ELSE {0, 1, 2}

\* A stage that returns without writing.
NoWrite(out) == [out |-> out, wr |-> {}]

\* Clamp(a, min, max) of MathUtils.
Clamp(a, lo, hi) == FMin(FMax(a, lo), hi)

(***************************************************************************)
(* Midtone curve                                                           *)
(***************************************************************************)
\* The blend without its factor 0.5f.
HermiteSegNoHalf(u, xl, xr, ml, mr, yl) ==
    FAdd(FMul(FMul(u, FSub(xr, xl)), FAdd(FMul(u, FSub(mr, ml)), ml)), yl)

\* u * (xr - xl) * (u * 0.5f * (mr - ml) + ml) + yl
HermiteSeg(u, xl, xr, ml, mr, yl) ==
    FAdd(FMul(FMul(u, FSub(xr, xl)),
              FAdd(FMul(FMul(u, Half), FSub(mr, ml)), ml)),
         yl)

\* The branch of mids for channel != M, on the value t.
MidsScalar(t, x, y, m) ==
    LET tL == FDiv(FSub(t, x[0]), FSub(x[1], x[0]))
        tM == FDiv(FSub(t, x[1]), FSub(x[2], x[1]))
        tR == FDiv(FSub(t, x[2]), FSub(x[3], x[2]))
        tR2 == FDiv(FSub(t, x[3]), FSub(x[4], x[3]))
        tR3 == FDiv(FSub(t, x[4]), FSub(x[5], x[4]))
        fL == HermiteSeg(tL, x[0], x[1], m[0], m[1], y[0])
        fM == HermiteSeg(tM, x[1], x[2], m[1], m[2], y[1])
        fR == HermiteSeg(tR, x[2], x[3], m[2], m[3], y[2])
        fR2 == HermiteSeg(tR2, x[3], x[4], m[3], m[4], y[3])
        fR3 == HermiteSeg(tR3, x[4], x[5], m[4], m[5], y[4])
        r1 == IF FLt(t, x[1]) THEN fL ELSE fM
        r2 == IF FGt(t, x[2]) THEN fR ELSE r1
        r3 == IF FGt(t, x[3]) THEN fR2 ELSE r2
        r4 == IF FGt(t, x[4]) THEN fR3 ELSE r3
        r5 == IF FLt(t, x[0]) THEN FAdd(y[0], FMul(FSub(t, x[0]), m[0])) ELSE r4
        r6 == IF FGt(t, x[5]) THEN FAdd(y[5], FMul(FSub(t, x[5]), m[5])) ELSE r5
    IN  r6

\* The branch of mids for channel == M, on one component t of the triple.
MidsMaster(t, x, y, m) ==
    LET tL == FDiv(FSub(t, x[0]), FSub(x[1], x[0]))
        tM == FDiv(FSub(t, x[1]), FSub(x[2], x[1]))
        tR == FDiv(FSub(t, x[2]), FSub(x[3], x[2]))
        tR2 == FDiv(FSub(t, x[3]), FSub(x[4], x[3]))
        tR3 == FDiv(FSub(t, x[4]), FSub(x[5], x[4]))
        fL == HermiteSeg(tL, x[0], x[1], m[0], m[1], y[0])
        fM == HermiteSeg(tM, x[1], x[2], m[1], m[2], y[1])
        fR == HermiteSeg(tR, x[2], x[3], m[2], m[3], y[2])
        fR2 == HermiteSeg(tR2, x[3], x[4], m[3], m[4], y[3])
        fR3 == HermiteSeg(tR3, x[4], x[5], m[4], m[5], y[4])
        fR4 == FAdd(FMul(FSub(t, x[0]), m[0]), y[0])
        fR5 == FAdd(FMul(FSub(t, x[5]), m[5]), y[5])
        r1 == setOnLimit(t, x[1], fL, fM)
        r2 == setOnLimit(t, x[2], r1, fR)
        r3 == setOnLimit(t, x[3], r2, fR2)
        r4 == setOnLimit(t, x[4], r3, fR3)
        r5 == setOnLimit(t, x[0], fR4, r4)
        r6 == setOnLimit(t, x[5], r5, fR5)
    IN  r6

\* The formula the branch for channel != M selects for the value t
\* (lines 264-269): the assignments to res, the last one that applies.
MidsScalarSelect(t, x) ==
    LET s1 == IF FLt(t, x[1]) THEN "fL" ELSE "fM"
        s2 == IF FGt(t, x[2]) THEN "fR" ELSE s1
        s3 == IF FGt(t, x[3]) THEN "fR2" ELSE s2
        s4 == IF FGt(t, x[4]) THEN "fR3" ELSE s3
        s5 == IF FLt(t, x[0]) THEN "below x0" ELSE s4
    IN  IF FGt(t, x[5]) THEN "above x5" ELSE s5

\* The formula the branch for channel == M selects for one component t
\* (lines 291-296): the calls of res.setOnLimit.
MidsMasterSelect(t, x) ==
    LET s1 == setOnLimit(t, x[1], "fL", "fM")
        s2 == setOnLimit(t, x[2], s1, "fR")
        s3 == setOnLimit(t, x[3], s2, "fR2")
        s4 == setOnLimit(t, x[4], s3, "fR3")
        s5 == setOnLimit(t, x[0], "below x0", s4)
    IN  setOnLimit(t, x[5], s5, "above x5")

\* mids without the test of the control.
midsAlways(v, vpr, channel, out) ==
    IF channel # M
    THEN SetScalar(channel, out,
                   MidsScalar(out[channel], vpr.m_midX[channel], vpr.m_midY[channel],
                              vpr.m_midM[channel]))
    ELSE SetTriple(out, [i \in 0 .. 2 |->
                            MidsMaster(out[i], vpr.m_midX[channel], vpr.m_midY[channel],
                                       vpr.m_midM[channel])])

\* GradingToneFwdOpCPU::mids
mids(v, vpr, channel, out) ==
    LET mid_adj == Clamp(v.m_midtones[channel], Lit(1, 100), Lit(199, 100))
        x == vpr.m_midX[channel]
        y == vpr.m_midY[channel]
        m == vpr.m_midM[channel]
    IN  IF mid_adj # One
        THEN IF channel # M
             THEN SetScalar(channel, out, MidsScalar(out[channel], x, y, m))
             ELSE SetTriple(out, [i \in 0 .. 2 |-> MidsMaster(out[i], x, y, m)])
        ELSE NoWrite(out)

(***************************************************************************)
(* Highlight / shadow curve                                                *)
(***************************************************************************)
\* ComputeHS for val < 1, given tL and tR (lines 351-360).
ComputeHSLess(x0, x1, x2, y0, y1, y2, m0, m2, t, tL, tR) ==
    LET fL == FAdd(FAdd(FMul(y0, FSub(One, FMul(tL, tL))),
                        FMul(FMul(y1, tL), tL)),
                   FMul(FMul(FMul(m0, FSub(One, tL)), tL), FSub(x1, x0)))
        fR == FAdd(FAdd(FMul(FMul(y1, FSub(One, tR)), FSub(One, tR)),
                        FMul(FMul(y2, FSub(Two, tR)), tR)),
                   FMul(FMul(FMul(m2, FSub(tR, One)), tR), FSub(x2, x1)))
        res1 == setOnLimit(t, x1, fL, fR)
        r0 == FAdd(FMul(FSub(t, x0), m0), y0)
        res2 == setOnLimit(t, x0, r0, res1)
        r2 == FAdd(FMul(FSub(t, x2), m2), y2)
    IN  setOnLimit(t, x2, res2, r2)

\* One root of ComputeHS for val > 1: (-2.f * c) / (Sqrt(b*b - 4.f*a*c) + b) * w + x
HSRoot(a, b, c, w, x) ==
    FAdd(FMul(FDiv(FMul(FNeg(Two), c),
                   FAdd(FSqrt(FSub(FMul(b, b), FMul(FMul(Four, a), c))), b)),
              w),
         x)

\* ComputeHS for val > 1 (lines 364-379).
ComputeHSGreater(x0, x1, x2, y0, y1, y2, m0, m2, t) ==
    LET bL == FMul(m0, FSub(x1, x0))
        aL == FSub(FSub(y1, y0), FMul(m0, FSub(x1, x0)))
        cL == FSub(y0, t)
        outL == HSRoot(aL, bL, cL, FSub(x1, x0), x0)
        bR == FSub(FSub(FMul(Two, y2), FMul(Two, y1)), FMul(m2, FSub(x2, x1)))
        aR == FAdd(FSub(y1, y2), FMul(m2, FSub(x2, x1)))
        cR == FSub(y1, t)
        outR == HSRoot(aR, bR, cR, FSub(x2, x1), x1)
        res1 == setOnLimit(t, y1, outL, outR)
        r0 == FAdd(FDiv(FSub(t, y0), m0), x0)
        res2 == setOnLimit(t, y0, r0, res1)
        r2 == FAdd(FDiv(FSub(t, y2), m2), x2)
    IN  setOnLimit(t, y2, res2, r2)

\* ComputeHS on one value t: the float instantiation, and each component of
\* the float3 instantiation.
ComputeHS(val, x0, x1, x2, y0, y1, y2, m0, m2, t) ==
    IF FLt(val, One)
    THEN ComputeHSLess(x0, x1, x2, y0, y1, y2, m0, m2, t,
                       FDiv(FSub(t, x0), FSub(x1, x0)), FDiv(FSub(t, x1), FSub(x2, x1)))
    ELSE IF FGt(val, One)
    THEN ComputeHSGreater(x0, x1, x2, y0, y1, y2, m0, m2, t)
    ELSE t

\* GradingToneFwdOpCPU::highlightShadow
highlightShadow(v, vpr, channel, isShadow, out) ==
    LET val0 == IF isShadow THEN v.m_shadows[channel] ELSE v.m_highlights[channel]
        val == IF ~isShadow THEN FSub(Two, val0) ELSE val0
        k == IF isShadow THEN 1 ELSE 0
        x == vpr.m_hsX[k][channel]
        y == vpr.m_hsY[k][channel]
        m == vpr.m_hsM[k][channel]
    IN  IF val = One THEN NoWrite(out)
        ELSE Set(channel, out,
                 [i \in Lanes(channel) |->
                     ComputeHS(val, x[0], x[1], x[2], y[0], y[1], y[2], m[0], m[1], out[i])])

(***************************************************************************)
(* White / black curve                                                     *)
(***************************************************************************)
\* A test value that is the control for the blacks as for the whites.
MTestAsWhites(isBlack, val) == val

\* float mtest = (!isBlack) ? val : 2.f - val;
MTest(isBlack, val) == IF ~isBlack THEN val ELSE FSub(Two, val)

\* ComputeWB, slope is decreasing case, on one value t.
ComputeWBDec(x0, x1, y0, y1, m0, m1, t) ==
    LET tlocal == FDiv(FSub(t, x0), FSub(x1, x0))
        res == HermiteSeg(tlocal, x0, x1, m0, m1, y0)
        res0 == FAdd(y0, FMul(FSub(t, x0), m0))
        resA == setOnLimit(t, x0, res0, res)
        res1 == FAdd(y1, FMul(FSub(t, x1), m1))
    IN  setOnLimit(t, x1, resA, res1)

\* The root of lines 445-450, for the value t of line 440 and c = y0 - t.
WBRoot(x0, x1, y0, m0, m1, t, c) ==
    LET a == FMul(FMul(Half, FSub(m1, m0)), FSub(x1, x0))
        b == FMul(m0, FSub(x1, x0))
        discrim == FSqrt(FSub(FMul(b, b), FMul(FMul(Four, a), c)))
        tmp == FDiv(FMul(FNeg(Two), c), FAdd(discrim, b))
        res == FAdd(FMul(tmp, FSub(x1, x0)), x0)
        res0 == FAdd(x0, FDiv(FSub(t, y0), m0))
    IN  setOnLimit(t, y0, res0, res)

\* aim_m of the quadratic extrapolation (lines 457-460), for xd.
WBAimM(x0, x1, m0, m1, xd) ==
    FDiv(FSub(FDiv(One, m1),
              FDiv(One, FAdd(m0, FDiv(FMul(FSub(xd, x0), FSub(m1, m0)), FSub(x1, x0))))),
         FSub(x1, xd))

\* The whites' end (lines 454-466): res and t are the values lines 454 and
\* 463 assign.
WBWhites(x0, x1, m1, gain, res, aim_m, t) ==
    LET new_y1 == FAdd(FDiv(FSub(x1, x0), gain), x0)
        bb == FSub(FDiv(One, m1), FMul(aim_m, x1))
        cc == FSub(FSub(new_y1, FMul(bb, x1)),
                   FMul(FMul(FMul(Half, aim_m), x1), x1))
        res1 == FAdd(FMul(FAdd(FMul(FMul(Half, aim_m), t), bb), t), cc)
    IN  setOnLimit(t, x1, res, res1)

\* Lines 452-473, for the value t of line 440 and the res of line 450.
WBEnd(isBlack, x0, x1, y1, m0, m1, gain, t, res) ==
    IF ~isBlack
    THEN WBWhites(x0, x1, m1, gain, FAdd(FDiv(FSub(res, x0), gain), x0),
                  WBAimM(x0, x1, m0, m1, FAdd(x0, FMul(FSub(x1, x0), Lit(99, 100)))),
                  FAdd(FDiv(FSub(t, x0), gain), x0))
    ELSE FAdd(FDiv(FSub(setOnLimit(t, y1, res, FAdd(x1, FDiv(FSub(t, y1), m1))), x1),
                   gain),
              x1)

\* Lines 442-473, for the value t of line 440.
WBIncAt(isBlack, x0, x1, y0, y1, m0, m1, gain, t) ==
    WBEnd(isBlack, x0, x1, y1, m0, m1, gain, t,
          WBRoot(x0, x1, y0, m0, m1, t, FSub(y0, t)))

\* ComputeWB, slope is increasing case, on one value t0.
ComputeWBInc(isBlack, x0, x1, y0, y1, m0, m1, gain, t0) ==
    WBIncAt(isBlack, x0, x1, y0, y1, m0, m1, gain,
            IF ~isBlack THEN FAdd(FMul(FSub(t0, x0), gain), x0)
                        ELSE FAdd(FMul(FSub(t0, x1), gain), x1))

\* ComputeWB on one value t: what it hands to Set.
ComputeWB(isBlack, val, x0, x1, y0, y1, m0, m1, gain, t) ==
    IF FLt(MTest(isBlack, val), One)
    THEN ComputeWBDec(x0, x1, y0, y1, m0, m1, t)
    ELSE ComputeWBInc(isBlack, x0, x1, y0, y1, m0, m1, gain, t)

\* GradingToneFwdOpCPU::whiteBlack with ComputeWB: Set is called when mtest
\* is below or above 1.
whiteBlack(v, vpr, channel, isBlack, out) ==
    LET val == IF isBlack THEN v.m_blacks[channel] ELSE v.m_whites[channel]
        k == IF isBlack THEN 1 ELSE 0
        x == vpr.m_wbX[k][channel]
        y == vpr.m_wbY[k][channel]
        m == vpr.m_wbM[k][channel]
        gain == vpr.m_wbGain[k][channel]
    IN  IF FLt(MTest(isBlack, val), One) \/ FGt(MTest(isBlack, val), One)
        THEN Set(channel, out,
                 [i \in Lanes(channel) |->
                     ComputeWB(isBlack, val, x[0], x[1], y[0], y[1], m[0], m[1], gain,
                               out[i])])
        ELSE NoWrite(out)

(***************************************************************************)
(* Symmetric contrast                                                      *)
(***************************************************************************)
\* The effective multiplier of scontrast.
ContrastGain(contrast) ==
    IF FGt(contrast, One)
    THEN FDiv(One, FSub(Lit(18125, 10000),
                        FMul(Lit(8125, 10000), FMin(contrast, Lit(199, 100)))))
    ELSE FAdd(Lit(28125, 100000),
              FMul(Lit(71875, 100000), FMax(contrast, Lit(1, 100))))

\* scontrast on one component t of the triple.
SContrast1(contrast, vpr, t) ==
    LET c == ContrastGain(contrast)
        outColor0 == FAdd(FMul(FSub(t, vpr.m_pivot), c), vpr.m_pivot)
        \* Top end
        tx1 == vpr.m_scX[0][1]
        tx2 == vpr.m_scX[0][2]
        ty1 == vpr.m_scY[0][1]
        ty2 == vpr.m_scY[0][2]
        tm0 == vpr.m_scM[0][0]
        tm3 == vpr.m_scM[0][1]
        tR == FDiv(FSub(t, tx1), FSub(tx2, tx1))
        tres == HermiteSeg(tR, tx1, tx2, tm0, tm3, ty1)
        outColor1 == setOnLimit(t, tx1, outColor0, tres)
        tres2 == FAdd(ty2, FMul(FSub(t, tx2), tm3))
        outColor2 == setOnLimit(t, tx2, outColor1, tres2)
        \* Bottom end
        bx1 == vpr.m_scX[1][1]
        bx2 == vpr.m_scX[1][2]
        by1 == vpr.m_scY[1][1]
        bm0 == vpr.m_scM[1][0]
        bm3 == vpr.m_scM[1][1]
        bR == FDiv(FSub(t, bx1), FSub(bx2, bx1))
        bres == HermiteSeg(bR, bx1, bx2, bm0, bm3, by1)
        outColor3 == setOnLimit(t, bx2, bres, outColor2)
        bres1 == FAdd(by1, FMul(FSub(t, bx1), bm0))
    IN  setOnLimit(t, bx1, bres1, outColor3)

\* GradingToneFwdOpCPU::scontrast
scontrast(v, vpr, out) ==
    IF v.m_scontrast # One
    THEN SetTriple(out, [i \in 0 .. 2 |-> SContrast1(v.m_scontrast, vpr, out[i])])
    ELSE NoWrite(out)

\* A clamp of all four components.
ClampMaxRGBA(out) ==
    [out |-> Px(FMin(out[0], Lit(65504, 1)), FMin(out[1], Lit(65504, 1)),
                FMin(out[2], Lit(65504, 1)), FMin(out[3], Lit(65504, 1))),
     wr |-> {0, 1, 2, 3}]

\* ClampMaxRGB
ClampMaxRGB(out) ==
    [out |-> Px(FMin(out[0], Lit(65504, 1)), FMin(out[1], Lit(65504, 1)),
                FMin(out[2], Lit(65504, 1)), out[3]),
     wr |-> {0, 1, 2}]

(***************************************************************************)
(* Log encoding of the linear style                                        *)
(***************************************************************************)
xbrk == Lit(41318, 10000000)
shift == -Lit(15785, 100000000)
\* m = 1.f / (0.18f + shift)
mm == FDiv(One, FAdd(Lit(18, 100), shift))
\* gain = 363.034608563f
mgain == Lit(36303, 100)
offs == -Lit(7, 1)
ybrk == -Lit(55, 10)
\* mgainInv = 1.f / gain
mgainInv == FDiv(One, mgain)
\* mshift018 = shift + 0.18f
mshift018 == FAdd(shift, Lit(18, 100))

\* The branch each strategy takes for a component: "lin" is the linear
\* scale + offset, "log" the logarithm.  With USE_SSE the flag
\* _mm_cmpgt_ps(pix, mxbrk) selects the logarithm; without, in < xbrk selects
\* the linear branch.
BranchEncode(sse, x) ==
    IF sse THEN (IF FGt(x, xbrk) THEN "log" ELSE "lin")
           ELSE (IF FLt(x, xbrk) THEN "lin" ELSE "log")

\* The same for the decoding: "log" is the power of two.
BranchDecode(sse, x) ==
    IF sse THEN (IF FGt(x, ybrk) THEN "log" ELSE "lin")
           ELSE (IF FLt(x, ybrk) THEN "lin" ELSE "log")

\* Lin to log of one component, without USE_SSE.
LinToLogScalar(x) ==
    IF BranchEncode(FALSE, x) = "lin"
    THEN FAdd(FMul(x, mgain), offs)
    ELSE FLog2(FMul(FAdd(x, shift), mm))

\* Lin to log of one lane, with USE_SSE.
LinToLogSSE(x) ==
    IF BranchEncode(TRUE, x) = "log"
    THEN FLog2(FMul(FAdd(x, shift), mm))
    ELSE FAdd(FMul(x, mgain), offs)

\* Log to lin of one component, without USE_SSE.
LogToLinScalar(x) ==
    IF BranchDecode(FALSE, x) = "lin"
    THEN FDiv(FSub(x, offs), mgain)
    ELSE FSub(FMul(FPow2(x), FAdd(Lit(18, 100), shift)), shift)

\* Log to lin of one lane, with USE_SSE.
LogToLinSSE(x) ==
    IF BranchDecode(TRUE, x) = "log"
    THEN FSub(FMul(FPow2(x), mshift018), shift)
    ELSE FMul(FSub(x, offs), mgainInv)

\* _mm_storeu_ps(out, ...): the four lanes of a register.
Lanes4(val) == Px(val[0], val[1], val[2], val[3])

\* out[0], out[1], out[2] from the triple and out[3] = in[3].
Lanes3(val, alpha) == Px(val[0], val[1], val[2], alpha)

\* The "Lin to log" block of GradingToneLinearFwdOpCPU::apply: reads the
\* input pixel, writes the output pixel.
LinToLog(sse, in) ==
    IF sse
    THEN [out |-> Lanes4([i \in 0 .. 3 |-> LinToLogSSE(in[i])]), wr |-> {0, 1, 2, 3}]
    ELSE [out |-> Lanes3([i \in 0 .. 2 |-> LinToLogScalar(in[i])], in[3]),
          wr |-> {0, 1, 2, 3}]

\* The "Log to lin" block.
LogToLin(sse, out) ==
    IF sse
    THEN [out |-> Lanes4([i \in 0 .. 3 |-> LogToLinSSE(out[i])]), wr |-> {0, 1, 2, 3}]
    ELSE [out |-> Lanes3([i \in 0 .. 2 |-> LogToLinScalar(out[i])], out[3]),
          wr |-> {0, 1, 2}]

\* memcpy(out, in, PixelSize)
CopyPixel(in) == [out |-> in, wr |-> {0, 1, 2, 3}]

(***************************************************************************)
(* The per-pixel pipelines                                                 *)
(***************************************************************************)
St(op, ch, flag) == [op |-> op, ch |-> ch, flag |-> flag]

\* The calls with the whites after the shadows.
CurveStagesShadowsFirst ==
    << St("mids", R, FALSE), St("mids", G, FALSE),
       St("mids", B, FALSE), St("mids", M, FALSE),
       St("highlightShadow", R, FALSE), St("highlightShadow", G, FALSE),
       St("highlightShadow", B, FALSE), St("highlightShadow", M, FALSE),
       St("highlightShadow", R, TRUE), St("highlightShadow", G, TRUE),
       St("highlightShadow", B, TRUE), St("highlightShadow", M, TRUE),
       St("whiteBlack", R, FALSE), St("whiteBlack", G, FALSE),
       St("whiteBlack", B, FALSE), St("whiteBlack", M, FALSE),
       St("whiteBlack", R, TRUE), St("whiteBlack", G, TRUE),
       St("whiteBlack", B, TRUE), St("whiteBlack", M, TRUE),
       St("scontrast", M, FALSE) >>

\* The calls of the five band groups and of scontrast, in source order.
CurveStages ==
    << St("mids", R, FALSE), St("mids", G, FALSE),
       St("mids", B, FALSE), St("mids", M, FALSE),
       St("highlightShadow", R, FALSE), St("highlightShadow", G, FALSE),
       St("highlightShadow", B, FALSE), St("highlightShadow", M, FALSE),
       St("whiteBlack", R, FALSE), St("whiteBlack", G, FALSE),
       St("whiteBlack", B, FALSE), St("whiteBlack", M, FALSE),
       St("highlightShadow", R, TRUE), St("highlightShadow", G, TRUE),
       St("highlightShadow", B, TRUE), St("highlightShadow", M, TRUE),
       St("whiteBlack", R, TRUE), St("whiteBlack", G, TRUE),
       St("whiteBlack", B, TRUE), St("whiteBlack", M, TRUE),
       St("scontrast", M, FALSE) >>

\* The loop body of GradingToneFwdOpCPU::apply.
FwdStages ==
    << St("memcpy", M, FALSE) >> \o CurveStages \o << St("ClampMaxRGB", M, FALSE) >>

\* The loop body of GradingToneLinearFwdOpCPU::apply.
LinearFwdStages ==
    << St("LinToLog", M, FALSE) >> \o CurveStages
       \o << St("LogToLin", M, FALSE), St("ClampMaxRGB", M, FALSE) >>

\* One call of the loop body: px is the input pixel for the first call and
\* the output pixel for every other.
RunStage(sse, v, vpr, st, px) ==
    CASE st.op = "memcpy" -> CopyPixel(px)
      [] st.op = "LinToLog" -> LinToLog(sse, px)
      [] st.op = "mids" -> mids(v, vpr, st.ch, px)
      [] st.op = "highlightShadow" -> highlightShadow(v, vpr, st.ch, st.flag, px)
      [] st.op = "whiteBlack" -> whiteBlack(v, vpr, st.ch, st.flag, px)
      [] st.op = "scontrast" -> scontrast(v, vpr, px)
      [] st.op = "LogToLin" -> LogToLin(sse, px)
      [] st.op = "ClampMaxRGB" -> ClampMaxRGB(px)

\* The record of one call: what it was given, what it left in the output
\* pixel, the components it wrote.
Call(st, px, r) == [st |-> st, in |-> px, out |-> r.out, wr |-> r.wr]

\* The pixel the k-th call works on: the input pixel for the first, what the
\* call before left for every other.
Cur(tr, k, in) == IF k = 1 THEN in ELSE tr[k - 1].out

RECURSIVE RunStages(_, _, _, _, _, _, _)
\* The calls of the loop body from the k-th on, after the calls tr: the
\* records of all calls, in order.
RunStages(sse, v, vpr, stages, k, in, tr) ==
    IF k > Len(stages) THEN tr
    ELSE RunStages(sse, v, vpr, stages, k + 1, in,
                   Append(tr, Call(stages[k], Cur(tr, k, in),
                                   RunStage(sse, v, vpr, stages[k], Cur(tr, k, in)))))

(***************************************************************************)
(* Parameters: the control values (GradingTone) and the coefficient table  *)
(* (GradingTonePreRender) an operator reads through its handle.            *)
(***************************************************************************)
AllCh(val) == (R :> val) @@ (G :> val) @@ (B :> val) @@ (M :> val)

\* Every control neutral.
Neutral ==
    [m_midtones |-> AllCh(One), m_highlights |-> AllCh(One), m_shadows |-> AllCh(One),
     m_whites |-> AllCh(One), m_blacks |-> AllCh(One), m_scontrast |-> One]

\* Every control set to val.
AllControls(val) ==
    [m_midtones |-> AllCh(val), m_highlights |-> AllCh(val), m_shadows |-> AllCh(val),
     m_whites |-> AllCh(val), m_blacks |-> AllCh(val), m_scontrast |-> val]

\* The two non-neutral control values used, one on each side of neutral.
Below == Lit(6, 10)
Above == Lit(14, 10)

\* A table with the same coefficients for every channel.
Table(midX, midY, midM, hX, hY, hM, sX, sY, sM, wX, wY, wM, wG, bX, bY, bM, bG, tX, tY, tM, lX, lY, lM, pivot) ==
    [m_midX |-> AllCh(Arr(midX)), m_midY |-> AllCh(Arr(midY)), m_midM |-> AllCh(Arr(midM)),
     m_hsX |-> Arr(<<AllCh(Arr(hX)), AllCh(Arr(sX))>>),
     m_hsY |-> Arr(<<AllCh(Arr(hY)), AllCh(Arr(sY))>>),
     m_hsM |-> Arr(<<AllCh(Arr(hM)), AllCh(Arr(sM))>>),
     m_wbX |-> Arr(<<AllCh(Arr(wX)), AllCh(Arr(bX))>>),
     m_wbY |-> Arr(<<AllCh(Arr(wY)), AllCh(Arr(bY))>>),
     m_wbM |-> Arr(<<AllCh(Arr(wM)), AllCh(Arr(bM))>>),
     m_wbGain |-> Arr(<<AllCh(wG), AllCh(bG)>>),
     m_scX |-> Arr(<<Arr(tX), Arr(lX)>>),
     m_scY |-> Arr(<<Arr(tY), Arr(lY)>>),
     m_scM |-> Arr(<<Arr(tM), Arr(lM)>>),
     m_pivot |-> pivot]

D(n) == Lit(n, 100)

\* A table whose midtone ordinates continue each segment into the next.
TableA ==
    Table(<<D(0), D(10), D(30), D(50), D(80), D(100)>>,
          <<D(0), D(11), D(37), D(61), D(85), D(101)>>,
          <<D(100), D(120), D(140), D(100), D(60), D(100)>>,
          <<D(50), D(75), D(100)>>, <<D(50), D(72), D(90)>>, <<D(100), D(60)>>,
          <<D(0), D(25), D(50)>>, <<D(10), D(30), D(50)>>, <<D(60), D(100)>>,
          <<D(40), D(100)>>, <<D(40), D(91)>>, <<D(100), D(70)>>, D(120),
          <<D(0), D(40)>>, <<D(4), D(40)>>, <<D(80), D(100)>>, D(110),
          <<D(0), D(80), D(100)>>, <<D(0), D(88), D(106)>>, <<D(120), D(60)>>,
          <<D(0), D(0), D(20)>>, <<D(0), D(3), D(16)>>, <<D(50), D(80)>>,
          D(40))

\* A table with strictly increasing breakpoints and other ordinates and slopes.
TableB ==
    Table(<<D(5), D(20), D(35), D(55), D(70), D(90)>>,
          <<D(5), D(25), D(35), D(50), D(75), D(95)>>,
          <<D(80), D(90), D(110), D(130), D(90), D(70)>>,
          <<D(40), D(70), D(110)>>, <<D(40), D(75), D(100)>>, <<D(120), D(50)>>,
          <<D(-10), D(20), D(60)>>, <<D(0), D(20), D(60)>>, <<D(50), D(100)>>,
          <<D(30), D(90)>>, <<D(30), D(85)>>, <<D(100), D(80)>>, D(150),
          <<D(-5), D(30)>>, <<D(0), D(30)>>, <<D(70), D(100)>>, D(130),
          <<D(0), D(70), D(90)>>, <<D(0), D(75), D(90)>>, <<D(110), D(40)>>,
          <<D(0), D(5), D(30)>>, <<D(0), D(8), D(28)>>, <<D(40), D(90)>>,
          D(18))

\* A table nobody filled in: what a handle holds for bands whose control is
\* neutral is not constrained.
TableJunk ==
    Table(<<0, 0, 0, 0, 0, 0>>, <<0, 0, 0, 0, 0, 0>>, <<0, 0, 0, 0, 0, 0>>,
          <<0, 0, 0>>, <<0, 0, 0>>, <<0, 0>>,
          <<0, 0, 0>>, <<0, 0, 0>>, <<0, 0>>,
          <<0, 0>>, <<0, 0>>, <<0, 0>>, 0,
          <<0, 0>>, <<0, 0>>, <<0, 0>>, 0,
          <<0, 0, 0>>, <<0, 0, 0>>, <<0, 0>>,
          <<0, 0, 0>>, <<0, 0, 0>>, <<0, 0>>,
          0)

(***************************************************************************)
(* Buffers and the apply methods                                           *)
(***************************************************************************)
\* Pixels per buffer.
MaxPixels == 2

\* The pixels of the input image: values around the curves' breakpoints and
\* the encoding's breakpoint, above the clamp's limit, NaN and infinities.
Pixels ==
    << Px(xbrk, D(30), D(60), D(50)),
       Px(Lit(70000, 1), NaN, PosInf, Lit(70000, 1)),
       Px(-D(10), Lit(65504, 1), D(120), NaN),
       Px(D(45), D(90), NegInf, One) >>

RECURSIVE Row(_, _)
\* A buffer of MaxPixels pixels, from pixel i on: the pixels of s, repeated.
Row(s, i) ==
    IF i >= MaxPixels - 1 THEN i :> s[(i % Len(s)) + 1]
    ELSE (i :> s[(i % Len(s)) + 1]) @@ Row(s, i + 1)

Image == Row(Pixels, 0)

\* What an output buffer holds before it is written.
BlankPixel == Px(-One, -One, -One, -One)
Blank == Row(<<BlankPixel>>, 0)

\* Memory is two buffers: 0 holds the image, 1 is a separate output buffer.
InitMem == Arr(<<Image, Blank>>)

RECURSIVE UnionWr(_, _)
UnionWr(tr, k) == IF k > Len(tr) THEN {} ELSE tr[k].wr \cup UnionWr(tr, k + 1)

\* An iteration that also leaves its result in the pixel after idx.
IterationWritingNext(acc, outImg, idx, tr) ==
    [mem |-> [acc.mem EXCEPT ![outImg][idx] = tr[Len(tr)].out,
                             ![outImg][(idx + 1) % MaxPixels] = tr[Len(tr)].out],
     trace |-> Append(acc.trace, tr),
     written |-> acc.written \cup {<<idx, c>> : c \in UnionWr(tr, 1)}]

\* What an iteration leaves: the output pixel idx, the calls it made and the
\* components it wrote.
Iteration(acc, outImg, idx, tr) ==
    [mem |-> [acc.mem EXCEPT ![outImg][idx] = tr[Len(tr)].out],
     trace |-> Append(acc.trace, tr),
     written |-> acc.written \cup {<<idx, c>> : c \in UnionWr(tr, 1)}]

RECURSIVE ApplyLoop(_, _, _, _, _, _, _, _, _)
\* for (long idx = 0; idx < numPixels; ++idx): the iterations from idx on,
\* after the iterations that left acc.
ApplyLoop(stages, sse, v, vpr, acc, inImg, outImg, numPixels, idx) ==
    IF idx >= numPixels THEN acc
    ELSE ApplyLoop(stages, sse, v, vpr,
                   Iteration(acc, outImg, idx,
                             RunStages(sse, v, vpr, stages, 1, acc.mem[inImg][idx], << >>)),
                   inImg, outImg, numPixels, idx + 1)

\* Nothing done yet on the buffers.
Start(memory) == [mem |-> memory, trace |-> << >>, written |-> {}]

RECURSIVE CopyPixels(_, _, _, _)
\* memcpy(outImg, inImg, numPixels * PixelSize)
CopyPixels(memory, inImg, outImg, numPixels) ==
    IF numPixels = 0 THEN memory
    ELSE [CopyPixels(memory, inImg, outImg, numPixels - 1)
            EXCEPT ![outImg][numPixels - 1] = memory[inImg][numPixels - 1]]

\* A bypass that copies without looking whether the buffers are the same.
BypassCopyUnchecked(memory, inImg, outImg, numPixels) ==
    [mem |-> CopyPixels(memory, inImg, outImg, numPixels),
     trace |-> << >>,
     written |-> {<<i, c>> : i \in 0 .. numPixels - 1, c \in 0 .. 3}]

\* if (m_gt->getLocalBypass()) { if (inImg != outImg) memcpy(...); return; }
BypassCopy(memory, inImg, outImg, numPixels) ==
    IF inImg # outImg
    THEN [mem |-> CopyPixels(memory, inImg, outImg, numPixels),
          trace |-> << >>,
          written |-> {<<i, c>> : i \in 0 .. numPixels - 1, c \in 0 .. 3}]
    ELSE Start(memory)

\* GradingToneFwdOpCPU::apply, on the parameters p its handle holds.
FwdApply(sse, p, memory, inImg, outImg, numPixels) ==
    IF p.bypass
    THEN BypassCopy(memory, inImg, outImg, numPixels) @@ [status |-> "ok"]
    ELSE ApplyLoop(FwdStages, sse, p.v, p.vpr, Start(memory), inImg, outImg, numPixels, 0)
         @@ [status |-> "ok"]

\* GradingToneLinearFwdOpCPU::apply
LinearFwdApply(sse, p, memory, inImg, outImg, numPixels) ==
    IF p.bypass
    THEN BypassCopy(memory, inImg, outImg, numPixels) @@ [status |-> "ok"]
    ELSE ApplyLoop(LinearFwdStages, sse, p.v, p.vpr, Start(memory), inImg, outImg,
                   numPixels, 0)
         @@ [status |-> "ok"]

\* GradingToneRevOpCPU::apply and GradingToneLinearRevOpCPU::apply:
\* throw Exception("GradingTone inverse CPU not implemented.")
RevApply(sse, p, memory, inImg, outImg, numPixels) ==
    [mem |-> memory, trace |-> << >>, written |-> {}, status |-> "not implemented"]

\* The virtual call apply() of an operator of class cls.
ApplyOf(cls, sse, p, memory, inImg, outImg, numPixels) ==
    CASE cls = "GradingToneFwdOpCPU" -> FwdApply(sse, p, memory, inImg, outImg, numPixels)
      [] cls = "GradingToneLinearFwdOpCPU" ->
            LinearFwdApply(sse, p, memory, inImg, outImg, numPixels)
      [] cls = "GradingToneRevOpCPU" -> RevApply(sse, p, memory, inImg, outImg, numPixels)
      [] cls = "GradingToneLinearRevOpCPU" ->
            RevApply(sse, p, memory, inImg, outImg, numPixels)

\* The forward classes, and the loop body of each.
IsFwd(c) == c \in {"GradingToneFwdOpCPU", "GradingToneLinearFwdOpCPU"}
StagesOf(c) == IF c = "GradingToneLinearFwdOpCPU" THEN LinearFwdStages ELSE FwdStages

Directions == {"TRANSFORM_DIR_FORWARD", "TRANSFORM_DIR_INVERSE"}
Styles == {"GRADING_LOG", "GRADING_LIN"}

\* A renderer factory that forgets the direction.
RendererIgnoringDirection(direction, gstyle) ==
    IF gstyle = "GRADING_LIN" THEN "GradingToneLinearFwdOpCPU" ELSE "GradingToneFwdOpCPU"

\* GetGradingToneCPURenderer: the class of the renderer it makes.
GetGradingToneCPURenderer(direction, gstyle) ==
    IF direction = "TRANSFORM_DIR_FORWARD"
    THEN (IF gstyle = "GRADING_LIN" THEN "GradingToneLinearFwdOpCPU"
                                    ELSE "GradingToneFwdOpCPU")
    ELSE (IF gstyle = "GRADING_LIN" THEN "GradingToneLinearRevOpCPU"
                                    ELSE "GradingToneRevOpCPU")

(***************************************************************************)
(* The operators, their handles and the calls made on them                 *)
(***************************************************************************)
\* Operators of one processor.
NumOps == 2
Ops == 1 .. NumOps

\* Handles (DynamicPropertyGradingToneImplRcPtr): Null is the empty pointer.
Null == 0
Handles == 1 .. 2 * NumOps

Types == {"DYNAMIC_PROPERTY_GRADING_TONE", "DYNAMIC_PROPERTY_GRADING_PRIMARY",
          "DYNAMIC_PROPERTY_EXPOSURE"}

Params(v, vpr, bypass) == [v |-> v, vpr |-> vpr, bypass |-> bypass]

\* Controls with every band of every channel active on both sides of neutral.
Mixed ==
    [m_midtones |-> Arr(<<One, Above, Below, Above>>),
     m_highlights |-> Arr(<<Below, One, Above, Below>>),
     m_shadows |-> Arr(<<Above, Below, One, Above>>),
     m_whites |-> Arr(<<Below, Above, Below, One>>),
     m_blacks |-> Arr(<<Above, One, Below, Above>>),
     m_scontrast |-> One]

\* The parameter sets an operator's data is built with.
InitParams ==
    { Params(Neutral, TableJunk, FALSE),
      Params(Mixed, TableA, FALSE),
      Params(AllControls(Above), TableA, TRUE) }

\* The parameter sets a client sets a dynamic property to.
NewParams ==
    { Params(AllControls(Below), TableB, FALSE),
      Params(AllControls(Above), TableA, TRUE) }

NoObj == [live |-> FALSE, dyn |-> FALSE, p |-> Params(Neutral, TableJunk, FALSE)]

NoRes ==
    [call |-> "none", op |-> 0, type |-> "", status |-> "", ret |-> Null,
     inImg |-> 0, outImg |-> 0, n |-> 0, h |-> Null, trace |-> << >>, written |-> {}]

VARIABLES
    direction,  \* the direction of the data each operator was made from
    style,      \* m_style
    cls,        \* the class GetGradingToneCPURenderer made
    useSSE,     \* whether the build defines USE_SSE
    m_gt,       \* each operator's handle
    heap,       \* the objects the handles point to
    prop,       \* the slot the operators of the processor are unified on
    unified,    \* the operators that were unified, first one first
    copies,     \* the calls of createEditableCopy: <<copy, original, caller>>
    mem,        \* the client's buffers
    res,        \* the call that has returned and what it returned
    pc          \* where each operator's apply call stands (SpecConc)

vars == <<direction, style, cls, useSSE, m_gt, heap, prop, unified, copies, mem, res, pc>>

config == <<direction, style, cls, useSSE>>

Idle == [at |-> "idle", inImg |-> 0, outImg |-> 0, n |-> 0, idx |-> 0,
         hBypass |-> Null, hV |-> Null, hVpr |-> Null]

\* GradingToneOpCPU::GradingToneOpCPU: m_gt = gt->getDynamicPropertyInternal().
\* The operators of a processor are made from data of one direction and style.
Init ==
    /\ \E d \in Directions, st \in Styles :
          /\ direction = [o \in Ops |-> d]
          /\ style = [o \in Ops |-> st]
          /\ cls = [o \in Ops |-> GetGradingToneCPURenderer(d, st)]
    /\ useSSE \in BOOLEAN
    /\ m_gt = [o \in Ops |-> o]
    /\ \E dyn \in BOOLEAN, p \in InitParams :
          heap = [h \in Handles |-> IF h \in Ops THEN [live |-> TRUE, dyn |-> dyn, p |-> p]
                                    ELSE NoObj]
    /\ prop = Null
    /\ unified = << >>
    /\ copies = << >>
    /\ mem = InitMem
    /\ res = NoRes
    /\ pc = [o \in Ops |-> Idle]

\* DynamicPropertyGradingToneImpl::createEditableCopy: a new object with the
\* value, the computed value and the flags of the original.
NewHandle(hp) == CHOOSE h \in Handles : ~hp[h].live /\ \A g \in Handles : g < h => hp[g].live
createEditableCopy(hp, h) == [hp EXCEPT ![NewHandle(hp)] = hp[h]]

\* bool hasDynamicProperty(type)
hasDynamicProperty(hp, h, type) ==
    IF type = "DYNAMIC_PROPERTY_GRADING_TONE" THEN hp[h].dyn ELSE FALSE

\* A query that does not look at the type.
getDynamicPropertyOfAnyType(hp, h, type) ==
    IF hp[h].dyn
    THEN [status |-> "ok", ret |-> h]
    ELSE [status |-> "GradingTone property is not dynamic.", ret |-> Null]

\* DynamicPropertyRcPtr getDynamicProperty(type): the handle, or the
\* exception thrown.
getDynamicProperty(hp, h, type) ==
    IF type = "DYNAMIC_PROPERTY_GRADING_TONE"
    THEN (IF hp[h].dyn
          THEN [status |-> "ok", ret |-> h]
          ELSE [status |-> "GradingTone property is not dynamic.", ret |-> Null])
    ELSE [status |-> "Dynamic property type not supported by GradingTone.", ret |-> Null]

\* A unification that fills an empty slot but never adopts a filled one.
unifyWithoutAdopting(hp, h, slot) ==
    IF slot = Null
    THEN [heap |-> createEditableCopy(hp, h), prop |-> NewHandle(hp),
          m_gt |-> NewHandle(hp), copied |-> TRUE]
    ELSE [heap |-> hp, prop |-> slot, m_gt |-> h, copied |-> FALSE]

\* unifyDynamicProperty(type, prop) for the grading-tone type: the heap, the
\* slot and the handle it leaves.
unifyDynamicProperty(hp, h, slot) ==
    IF slot = Null
    THEN [heap |-> createEditableCopy(hp, h), prop |-> NewHandle(hp),
          m_gt |-> NewHandle(hp), copied |-> TRUE]
    ELSE [heap |-> hp, prop |-> slot, m_gt |-> slot, copied |-> FALSE]

HasDynamicProperty(o, type) ==
    /\ res.call = "none"
    /\ res' = [NoRes EXCEPT !.call = "hasDynamicProperty", !.op = o, !.type = type,
                 !.status = IF hasDynamicProperty(heap, m_gt[o], type) THEN "true" ELSE "false",
                 !.h = m_gt[o]]
    /\ UNCHANGED <<config, m_gt, heap, prop, unified, copies, mem, pc>>

GetDynamicProperty(o, type) ==
    /\ res.call = "none"
    /\ LET r == getDynamicProperty(heap, m_gt[o], type)
       IN  res' = [NoRes EXCEPT !.call = "getDynamicProperty", !.op = o, !.type = type,
                     !.status = r.status, !.ret = r.ret, !.h = m_gt[o]]
    /\ UNCHANGED <<config, m_gt, heap, prop, unified, copies, mem, pc>>

\* The call unifyDynamicProperty(DYNAMIC_PROPERTY_GRADING_TONE, prop) of
\* operator o leaves r.
Unified(o, r) ==
    /\ heap' = r.heap
    /\ prop' = r.prop
    /\ m_gt' = [m_gt EXCEPT ![o] = r.m_gt]
    /\ copies' = IF r.copied THEN Append(copies, <<r.prop, m_gt[o], o>>) ELSE copies
    /\ unified' = IF \E k \in 1 .. Len(unified) : unified[k] = o
                  THEN unified ELSE Append(unified, o)

UnifyDynamicProperty(o) ==
    /\ res.call = "none"
    /\ pc[o].at = "idle"
    /\ Unified(o, unifyDynamicProperty(heap, m_gt[o], prop))
    /\ res' = [NoRes EXCEPT !.call = "unifyDynamicProperty", !.op = o,
                 !.type = "DYNAMIC_PROPERTY_GRADING_TONE", !.status = "ok",
                 !.h = m_gt'[o]]
    /\ UNCHANGED <<config, mem, pc>>

\* unifyDynamicProperty for another type is left to OpCPU: this class
\* touches neither its handle nor the slot.
UnifyOtherType(o, type) ==
    /\ res.call = "none"
    /\ type # "DYNAMIC_PROPERTY_GRADING_TONE"
    /\ res' = [NoRes EXCEPT !.call = "unifyDynamicProperty", !.op = o, !.type = type,
                 !.status = "OpCPU::unifyDynamicProperty", !.h = m_gt[o]]
    /\ UNCHANGED <<config, m_gt, heap, prop, unified, copies, mem, pc>>

\* The client sets the value of the property the processor was unified on,
\* between two calls of apply: the controls, the table computed from them and
\* the bypass flag change.
SetValue(p) ==
    /\ res.call = "none"
    /\ \A q \in Ops : pc[q].at = "idle"
    /\ prop # Null
    /\ heap[prop].dyn
    /\ heap[prop].p # p
    /\ heap' = [heap EXCEPT ![prop].p = p]
    /\ res' = [NoRes EXCEPT !.call = "setValue", !.h = prop, !.status = "ok"]
    /\ UNCHANGED <<config, m_gt, prop, unified, copies, mem, pc>>

\* The call apply(0, outImg, numPixels) of operator o returns r.
Applied(o, outImg, numPixels, r) ==
    /\ mem' = r.mem
    /\ res' = [NoRes EXCEPT !.call = "apply", !.op = o, !.status = r.status,
                 !.inImg = 0, !.outImg = outImg, !.n = numPixels,
                 !.h = m_gt[o], !.trace = r.trace, !.written = r.written]

\* apply(inImg, outImg, numPixels) as one call: buffer 0 holds the image and
\* the output is buffer 0 (in place) or buffer 1.
Apply(o, outImg, numPixels) ==
    /\ res.call = "none"
    /\ pc[o].at = "idle"
    /\ Applied(o, outImg, numPixels,
               ApplyOf(cls[o], useSSE, heap[m_gt[o]].p, mem, 0, outImg, numPixels))
    /\ UNCHANGED <<config, m_gt, heap, prop, unified, copies, pc>>

\* The client takes the result and hands out fresh buffers.
Return ==
    /\ res.call # "none"
    /\ res' = NoRes
    /\ mem' = InitMem
    /\ UNCHANGED <<config, m_gt, heap, prop, unified, copies, pc>>

Next ==
    \/ \E o \in Ops, type \in Types : HasDynamicProperty(o, type)
    \/ \E o \in Ops, type \in Types : GetDynamicProperty(o, type)
    \/ \E o \in Ops : UnifyDynamicProperty(o)
    \/ \E o \in Ops, type \in Types : UnifyOtherType(o, type)
    \/ \E p \in NewParams : SetValue(p)
    \/ \E o \in Ops, outImg \in {0, 1}, numPixels \in 0 .. MaxPixels : Apply(o, outImg, numPixels)
    \/ Return

Spec == Init /\ [][Next]_vars

(***************************************************************************)
(* apply and unifyDynamicProperty of one operator called from two threads. *)
(* Neither method takes a lock and m_gt is a mutable member: apply reads   *)
(* it at three places (getLocalBypass, getValue, getComputedValue), and a  *)
(* unifyDynamicProperty of the other thread may assign it before, between  *)
(* or after them.                                                          *)
(***************************************************************************)
\* if (m_gt->getLocalBypass()): the first read of m_gt.
ApplyReadBypass(o, outImg, numPixels) ==
    /\ res.call = "none"
    /\ \A q \in Ops : pc[q].at = "idle"
    /\ IsFwd(cls[o])
    /\ IF heap[m_gt[o]].p.bypass
       THEN /\ Applied(o, outImg, numPixels,
                       BypassCopy(mem, 0, outImg, numPixels) @@ [status |-> "ok"])
            /\ pc' = pc
       ELSE /\ pc' = [pc EXCEPT ![o] = [Idle EXCEPT !.at = "getValue", !.outImg = outImg,
                                                   !.n = numPixels, !.hBypass = m_gt[o]]]
            /\ UNCHANGED <<mem, res>>
    /\ UNCHANGED <<config, m_gt, heap, prop, unified, copies>>

\* auto & v = m_gt->getValue(): the second read of m_gt.
ApplyGetValue(o) ==
    /\ pc[o].at = "getValue"
    /\ pc' = [pc EXCEPT ![o].at = "getComputedValue", ![o].hV = m_gt[o]]
    /\ UNCHANGED <<config, m_gt, heap, prop, unified, copies, mem, res>>

\* auto & vpr = m_gt->getComputedValue(): the third read of m_gt.
ApplyGetComputedValue(o) ==
    /\ pc[o].at = "getComputedValue"
    /\ pc' = [pc EXCEPT ![o].at = "loop", ![o].hVpr = m_gt[o]]
    /\ UNCHANGED <<config, m_gt, heap, prop, unified, copies, mem, res>>

\* One iteration of the loop, on the objects v and vpr refer to.
ApplyIteration(o) ==
    /\ pc[o].at = "loop"
    /\ pc[o].idx < pc[o].n
    /\ mem' = ApplyLoop(StagesOf(cls[o]), useSSE, heap[pc[o].hV].p.v,
                        heap[pc[o].hVpr].p.vpr, Start(mem), 0, pc[o].outImg,
                        pc[o].idx + 1, pc[o].idx).mem
    /\ pc' = [pc EXCEPT ![o].idx = @ + 1]
    /\ UNCHANGED <<config, m_gt, heap, prop, unified, copies, res>>

\* idx = numPixels: apply returns.
ApplyReturn(o) ==
    /\ pc[o].at = "loop"
    /\ pc[o].idx >= pc[o].n
    /\ res' = [NoRes EXCEPT !.call = "apply", !.op = o, !.status = "ok",
                 !.outImg = pc[o].outImg, !.n = pc[o].n, !.h = pc[o].hBypass]
    /\ pc' = [pc EXCEPT ![o] = Idle]
    /\ UNCHANGED <<config, m_gt, heap, prop, unified, copies, mem>>

\* unifyDynamicProperty of operator o on the other thread.
ConcUnify(o) ==
    /\ Unified(o, unifyDynamicProperty(heap, m_gt[o], prop))
    /\ UNCHANGED <<config, mem, res, pc>>

NextConc ==
    \/ \E o \in Ops, outImg \in {0, 1}, numPixels \in 0 .. MaxPixels :
          ApplyReadBypass(o, outImg, numPixels)
    \/ \E o \in Ops : ApplyGetValue(o)
    \/ \E o \in Ops : ApplyGetComputedValue(o)
    \/ \E o \in Ops : ApplyIteration(o)
    \/ \E o \in Ops : ApplyReturn(o)
    \/ \E o \in Ops : ConcUnify(o)
    \/ \E p \in NewParams : SetValue(p)
    \/ Return

SpecConc == Init /\ [][NextConc]_vars

(***************************************************************************)
(* The curve evaluators on their own: the protected methods mids,          *)
(* highlightShadow, whiteBlack and scontrast of a forward operator, each   *)
(* called once on a pixel whose colour components sit at, just below or    *)
(* just above a breakpoint of the midtone table.                           *)
(***************************************************************************)
\* The parameter sets the evaluators are called with.
CurveParams ==
    { Params(Neutral, TableA, FALSE), Params(Mixed, TableA, FALSE),
      Params(Mixed, TableB, FALSE),
      Params(AllControls(Below), TableA, FALSE), Params(AllControls(Below), TableB, FALSE),
      Params(AllControls(Above), TableA, FALSE), Params(AllControls(Above), TableB, FALSE) }

\* The calls an iteration makes of the evaluators.
CurveCalls == {CurveStages[j] : j \in 1 .. Len(CurveStages)}

\* The distance from a breakpoint of the values next to it.
Eps == Lit(1, 1000)
Offsets == {-Eps, 0, Eps}

\* Forward operators, each with its own handle on one of the parameter sets.
InitCurve ==
    /\ \E st \in Styles :
          /\ direction = [o \in Ops |-> "TRANSFORM_DIR_FORWARD"]
          /\ style = [o \in Ops |-> st]
          /\ cls = [o \in Ops |-> GetGradingToneCPURenderer("TRANSFORM_DIR_FORWARD", st)]
    /\ useSSE \in BOOLEAN
    /\ m_gt = [o \in Ops |-> o]
    /\ \E p \in CurveParams :
          heap = [h \in Handles |-> IF h \in Ops THEN [live |-> TRUE, dyn |-> FALSE, p |-> p]
                                    ELSE NoObj]
    /\ prop = Null
    /\ unified = << >>
    /\ copies = << >>
    /\ mem = InitMem
    /\ res = NoRes
    /\ pc = [o \in Ops |-> Idle]

\* The call c of an evaluator by operator o has returned: out is pixel 0 of
\* buffer 1.
Staged(o, c) ==
    /\ mem' = [mem EXCEPT ![1][0] = c.out]
    /\ res' = [NoRes EXCEPT !.call = "stage", !.op = o, !.status = "ok", !.inImg = 1,
                 !.outImg = 1, !.n = 1, !.h = m_gt[o], !.trace = << <<c>> >>,
                 !.written = {<<0, w>> : w \in c.wr}]

\* One call st of an evaluator on the pixel px, with the parameters p.
StageOn(o, p, st, px) == Staged(o, Call(st, px, RunStage(useSSE, p.v, p.vpr, st, px)))

\* Operator o calls the evaluator st on the pixel (t, t, t, 1), t being the
\* k-th breakpoint of the midtone table or a value next to it.
StageCall(o, st, k, e) ==
    /\ res.call = "none"
    /\ pc[o].at = "idle"
    /\ IsFwd(cls[o])
    /\ StageOn(o, heap[m_gt[o]].p, st,
               Px(FAdd(heap[m_gt[o]].p.vpr.m_midX[st.ch][k], e),
                  FAdd(heap[m_gt[o]].p.vpr.m_midX[st.ch][k], e),
                  FAdd(heap[m_gt[o]].p.vpr.m_midX[st.ch][k], e), One))
    /\ UNCHANGED <<config, m_gt, heap, prop, unified, copies, pc>>

NextCurve ==
    \/ \E o \in Ops, st \in CurveCalls, k \in 0 .. 5, e \in Offsets : StageCall(o, st, k, e)
    \/ Return

SpecCurve == InitCurve /\ [][NextCurve]_vars

(***************************************************************************)
(* Properties.  res holds the call that has just returned; mem holds the   *)
(* buffers as that call left them; the input of an apply is buffer 0 of    *)
(* InitMem.                                                                *)
(***************************************************************************)
\* The parameters the apply that returned read through its handle.
UsedParams == heap[res.h].p

\* A forward apply has returned.
FwdApplied == res.call = "apply" /\ IsFwd(cls[res.op])

\* A forward apply has returned after running its loop (bypass off).
RanLoop == FwdApplied /\ ~UsedParams.bypass

\* Pixel i of the input buffer.
InPixel(i) == InitMem[0][i]

\* a <= b on floats: false when either is a NaN.
FLe(a, b) == ~IsNaN(a) /\ ~IsNaN(b) /\ a <= b

\* The last call of the loop body for the i-th pixel processed.
LastCall(i) == res.trace[i][Len(res.trace[i])]

\* C1: applying a reverse-direction operator, of the plain or of the linear
\* style, fails with the "not implemented" error for every buffer and every
\* pixel count, and it writes no pixel: the buffers are as they were.
C1_ReverseApplyFails ==
    (res.call = "apply" /\ direction[res.op] = "TRANSFORM_DIR_INVERSE") =>
        /\ res.status = "not implemented"
        /\ res.written = {}
        /\ res.trace = << >>
        /\ mem = InitMem

\* A reverse operator of the linear style was applied to a full buffer.
C1_Witness ==
    /\ res.call = "apply"
    /\ direction[res.op] = "TRANSFORM_DIR_INVERSE"
    /\ style[res.op] = "GRADING_LIN"
    /\ res.outImg = 1
    /\ res.n = MaxPixels
    /\ res.status = "not implemented"

\* C2: with the bypass flag set, a forward apply of either style leaves the
\* first numPixels pixels of the output buffer equal to those of the input
\* buffer, runs no stage (no curve, no encoding, no clamp), touches nothing
\* else, and writes nothing when input and output are the same buffer.
C2_BypassCopies ==
    (FwdApplied /\ UsedParams.bypass) =>
        /\ res.status = "ok"
        /\ \A i \in 0 .. res.n - 1 : mem[res.outImg][i] = InPixel(i)
        /\ \A i \in res.n .. MaxPixels - 1 : mem[res.outImg][i] = InitMem[res.outImg][i]
        /\ mem[0] = InitMem[0]
        /\ res.trace = << >>
        /\ (res.outImg = res.inImg => res.written = {})

\* A bypassed operator of the linear style copied a component above 65504
\* into another buffer.
C2_Witness ==
    /\ FwdApplied
    /\ UsedParams.bypass
    /\ cls[res.op] = "GradingToneLinearFwdOpCPU"
    /\ res.outImg = 1
    /\ res.n >= 2
    /\ mem[1][1][0] = Lit(70000, 1)
    /\ FGt(mem[1][1][0], Lit(65504, 1))

\* The five band groups in the order the claim C3 gives them: midtones,
\* highlights, whites, shadows, blacks.
C3_Band(b) ==
    CASE b = 1 -> [op |-> "mids", flag |-> FALSE]
      [] b = 2 -> [op |-> "highlightShadow", flag |-> FALSE]
      [] b = 3 -> [op |-> "whiteBlack", flag |-> FALSE]
      [] b = 4 -> [op |-> "highlightShadow", flag |-> TRUE]
      [] b = 5 -> [op |-> "whiteBlack", flag |-> TRUE]

\* The calls tr made for one pixel, in is the input pixel, lin the style.
C3_InOrder(tr, in, lin) ==
    /\ Len(tr) = IF lin THEN 24 ELSE 23
    /\ tr[1].st.op = IF lin THEN "LinToLog" ELSE "memcpy"
    /\ tr[1].in = in
    /\ \A b \in 1 .. 5, c \in {R, G, B, M} :
          tr[1 + 4 * (b - 1) + c + 1].st = St(C3_Band(b).op, c, C3_Band(b).flag)
    /\ tr[22].st.op = "scontrast"
    /\ (lin => tr[23].st.op = "LogToLin")
    /\ tr[Len(tr)].st.op = "ClampMaxRGB"
    /\ \A k \in 2 .. Len(tr) : tr[k].in = tr[k - 1].out

\* C3: for every pixel of a forward apply with bypass off the calls are, in
\* this order: the copy (plain style) or the log encode (linear style); the
\* midtones, highlights, whites, shadows and blacks, each for R, G, B and then
\* Master; the symmetric contrast; the log decode (linear style); the clamp.
\* Every call works on what the call before it left in the output pixel.
C3_StageOrder ==
    RanLoop =>
        /\ Len(res.trace) = res.n
        /\ \A i \in 1 .. Len(res.trace) :
              C3_InOrder(res.trace[i], InPixel(i - 1),
                         cls[res.op] = "GradingToneLinearFwdOpCPU")

\* A linear-style apply in which the midtones' Master call wrote the triple
\* after the midtones' G call had written its component.
C3_Witness ==
    /\ RanLoop
    /\ cls[res.op] = "GradingToneLinearFwdOpCPU"
    /\ \E i \in 1 .. Len(res.trace) :
          /\ res.trace[i][3].wr = {G}
          /\ res.trace[i][3].out # res.trace[i][3].in
          /\ res.trace[i][5].wr = {0, 1, 2}
          /\ res.trace[i][5].in = res.trace[i][4].out

\* What C4 says of the clamp but for the bound on the output: the last call
\* is the clamp, its result is the output pixel, a component above 65504
\* becomes 65504, any other is unchanged, and alpha is not written.
C4_Clamp(i) ==
    /\ LastCall(i).st.op = "ClampMaxRGB"
    /\ mem[res.outImg][i - 1] = LastCall(i).out
    /\ \A c \in 0 .. 2 :
          IF FGt(LastCall(i).in[c], Lit(65504, 1))
          THEN LastCall(i).out[c] = Lit(65504, 1)
          ELSE LastCall(i).out[c] = LastCall(i).in[c]
    /\ LastCall(i).out[A] = LastCall(i).in[A]
    /\ A \notin LastCall(i).wr

\* C4 as stated: after a forward apply with bypass off every R, G and B
\* output component is at most 65504; one that exceeded 65504 after the last
\* stage is output as 65504, any other unchanged; the clamp never writes alpha.
C4_AtMost65504 ==
    RanLoop =>
        \A i \in 1 .. Len(res.trace) :
            /\ C4_Clamp(i)
            /\ \A c \in 0 .. 2 : FLe(mem[res.outImg][i - 1][c], Lit(65504, 1))

\* C4 amended: every R, G and B output component that is not a NaN is at most
\* 65504; one that exceeded 65504 after the last stage (+Inf included) is
\* output as 65504, any other, a NaN included, is output unchanged; the clamp
\* never writes alpha.
C4_AtMost65504UnlessNaN ==
    RanLoop =>
        \A i \in 1 .. Len(res.trace) :
            /\ C4_Clamp(i)
            /\ \A c \in 0 .. 2 :
                  \/ IsNaN(mem[res.outImg][i - 1][c])
                  \/ FLe(mem[res.outImg][i - 1][c], Lit(65504, 1))

\* A pixel reached the clamp with 70000 in R and a NaN in G: R was output as
\* 65504, G as the NaN.
C4_Witness ==
    /\ RanLoop
    /\ \E i \in 1 .. Len(res.trace) :
          /\ LastCall(i).in[0] = Lit(70000, 1)
          /\ mem[res.outImg][i - 1][0] = Lit(65504, 1)
          /\ IsNaN(LastCall(i).in[1])
          /\ IsNaN(mem[res.outImg][i - 1][1])

\* C5: for every forward apply, of both styles and with and without USE_SSE,
\* the alpha of each output pixel is the alpha of the same input pixel, and
\* no call of the loop body leaves any other value in it.
C5_AlphaUntouched ==
    FwdApplied =>
        /\ \A i \in 0 .. res.n - 1 : mem[res.outImg][i][A] = InPixel(i)[A]
        /\ \A i \in 1 .. Len(res.trace) : \A k \in 1 .. Len(res.trace[i]) :
              res.trace[i][k].out[A] = InPixel(i - 1)[A]

\* The control a call of a band's stage tests.
C6_Control(v, st) ==
    CASE st.op = "mids" -> v.m_midtones[st.ch]
      [] st.op = "highlightShadow" ->
            IF st.flag THEN v.m_shadows[st.ch] ELSE v.m_highlights[st.ch]
      [] st.op = "whiteBlack" ->
            IF st.flag THEN v.m_blacks[st.ch] ELSE v.m_whites[st.ch]
      [] st.op = "scontrast" -> v.m_scontrast

\* C6: a call of a band's stage (midtones, highlights, shadows, whites,
\* blacks, symmetric contrast) for a channel whose control is exactly 1 writes
\* nothing, whatever the table; and with every control neutral a plain-style
\* forward apply outputs min(input, 65504) in each colour component.
C6_NeutralWritesNothing ==
    RanLoop =>
        /\ \A i \in 1 .. Len(res.trace) : \A k \in 1 .. Len(res.trace[i]) :
              ( /\ res.trace[i][k].st.op \in {"mids", "highlightShadow", "whiteBlack",
                                              "scontrast"}
                /\ C6_Control(UsedParams.v, res.trace[i][k].st) = One )
              => /\ res.trace[i][k].wr = {}
                 /\ res.trace[i][k].out = res.trace[i][k].in
        /\ (UsedParams.v = Neutral /\ cls[res.op] = "GradingToneFwdOpCPU") =>
              \A i \in 0 .. res.n - 1 : \A c \in 0 .. 2 :
                  mem[res.outImg][i][c] = FMin(InPixel(i)[c], Lit(65504, 1))

\* A plain-style apply with every control neutral and a table of zeros, on a
\* pixel with a component above 65504.
C6_Witness ==
    /\ RanLoop
    /\ cls[res.op] = "GradingToneFwdOpCPU"
    /\ UsedParams.v = Neutral
    /\ UsedParams.vpr = TableJunk
    /\ res.n >= 2
    /\ InPixel(1)[0] = Lit(70000, 1)
    /\ mem[res.outImg][1][0] = Lit(65504, 1)
    /\ res.trace[2][2].wr = {}

\* C7: on a slot that starts empty, the calls of unifyDynamicProperty for the
\* grading-tone type make exactly one editable copy, in the first call and
\* from the first caller's own handle; every operator that has called holds
\* that copy, which is what the slot holds; and an apply of such an operator
\* reads its parameters, as they are then, through it.
C7_OneSharedCopy ==
    /\ (unified = << >>) => (copies = << >> /\ prop = Null)
    /\ (unified # << >>) =>
          /\ Len(copies) = 1
          /\ copies[1] = <<prop, unified[1], unified[1]>>
          /\ prop \notin Ops
          /\ heap[prop].live
          /\ \A k \in 1 .. Len(unified) : m_gt[unified[k]] = prop
    /\ \A o \in Ops : (\A k \in 1 .. Len(unified) : unified[k] # o) => m_gt[o] = o
    /\ (res.call = "unifyDynamicProperty" /\ res.type = "DYNAMIC_PROPERTY_GRADING_TONE")
          => (res.h = prop /\ m_gt[res.op] = prop)
    /\ (res.call = "apply" /\ \E k \in 1 .. Len(unified) : unified[k] = res.op)
          => /\ res.h = prop
             /\ (IsFwd(cls[res.op]) /\ heap[prop].p.bypass) => res.trace = << >>
             /\ (IsFwd(cls[res.op]) /\ ~heap[prop].p.bypass) => Len(res.trace) = res.n

\* Every operator has unified, the first one first; the shared value was then
\* changed; the last one to unify has applied with the changed value.
C7_Witness ==
    /\ Len(unified) = NumOps
    /\ unified[1] = 1
    /\ heap[prop].p # heap[1].p
    /\ heap[prop].p = Params(AllControls(Below), TableB, FALSE)
    /\ res.call = "apply"
    /\ res.op = unified[NumOps]
    /\ IsFwd(cls[res.op])
    /\ res.h = prop
    /\ res.n >= 1
    /\ res.trace # << >>

\* What C8 says of the results of the two queries.
C8_Results ==
    /\ res.call = "hasDynamicProperty" =>
          ((res.status = "true") <=>
              (res.type = "DYNAMIC_PROPERTY_GRADING_TONE" /\ heap[m_gt[res.op]].dyn))
    /\ res.call = "getDynamicProperty" =>
          /\ (res.status = "ok") <=> hasDynamicProperty(heap, m_gt[res.op], res.type)
          /\ (res.status = "ok") <=>
                (res.type = "DYNAMIC_PROPERTY_GRADING_TONE" /\ heap[m_gt[res.op]].dyn)
          /\ (res.status = "ok") => res.ret = m_gt[res.op]
          /\ (res.status # "ok") => res.ret = Null

\* C8: getDynamicProperty returns the operator's handle exactly when
\* hasDynamicProperty is true for the type, which is when the type is the
\* grading-tone type and the handle is dynamic; otherwise it fails with an
\* error and returns nothing; and neither query changes a handle, the slot or
\* the parameters.
C8_Queries ==
    /\ []C8_Results
    /\ [][res'.call \in {"hasDynamicProperty", "getDynamicProperty"}
            => UNCHANGED <<m_gt, heap, prop, unified, copies>>]_vars

\* getDynamicProperty of the grading-tone type has returned the handle of a
\* dynamic operator.
C8_Witness ==
    /\ res.call = "getDynamicProperty"
    /\ res.type = "DYNAMIC_PROPERTY_GRADING_TONE"
    /\ heap[m_gt[res.op]].dyn
    /\ res.status = "ok"
    /\ res.ret = m_gt[res.op]

\* The branch C9 gives for a value and a breakpoint: linear strictly below,
\* logarithm or power at or above.
C9_Branch(x, brk) == IF FLt(x, brk) THEN "lin" ELSE "log"

\* C9: in a linear-style forward apply the build with USE_SSE and the build
\* without take, for every colour component, the same branch of the encode
\* and of the decode: linear strictly below the breakpoint, logarithm or
\* power at or above it, a value equal to the breakpoint included.
C9_SameBranch ==
    (RanLoop /\ cls[res.op] = "GradingToneLinearFwdOpCPU") =>
        \A i \in 1 .. Len(res.trace) : \A c \in 0 .. 2 :
            /\ BranchEncode(useSSE, res.trace[i][1].in[c])
                  = C9_Branch(res.trace[i][1].in[c], xbrk)
            /\ BranchEncode(TRUE, res.trace[i][1].in[c])
                  = BranchEncode(FALSE, res.trace[i][1].in[c])
            /\ BranchDecode(useSSE, res.trace[i][23].in[c])
                  = C9_Branch(res.trace[i][23].in[c], ybrk)

\* C10: within one apply of an operator, between its read of the bypass flag
\* and its return, the controls and the table are read through the handle
\* the flag was read through: no unifyDynamicProperty of that operator takes
\* effect in between.
C10_OneHandlePerApply ==
    \A o \in Ops :
        pc[o].at # "idle" =>
            /\ pc[o].hV \in {Null, pc[o].hBypass}
            /\ pc[o].hVpr \in {Null, pc[o].hBypass}

\* The output pixel the loop body of a class computes from one input pixel and
\* the parameters alone.
C11_PixelOut(c, sse, p, in) ==
    LET tr == RunStages(sse, p.v, p.vpr, StagesOf(c), 1, in, << >>)
    IN  tr[Len(tr)].out

\* The buffer a forward apply of the call that returned would have left had
\* its output been the other buffer (the separate one for a call in place,
\* the input buffer itself for a call on a separate buffer).
C11_OtherBuffer ==
    ApplyOf(cls[res.op], useSSE, UsedParams, InitMem, 0, 1 - res.outImg,
            res.n).mem[1 - res.outImg]

\* C11: for every forward apply with bypass off, in place or on a separate
\* output buffer, output pixel i is what the loop body computes from input
\* pixel i and the parameters alone, so the output in place is the output on
\* a separate buffer; the input pixel is read by the first call of the
\* iteration only, every later call working on the output pixel; and no
\* pixel from numPixels on is written.
C11_InPlaceSame ==
    RanLoop =>
        /\ \A i \in 0 .. res.n - 1 :
              /\ mem[res.outImg][i]
                    = C11_PixelOut(cls[res.op], useSSE, UsedParams, InPixel(i))
              /\ res.trace[i + 1][1].in = InPixel(i)
              /\ \A k \in 2 .. Len(res.trace[i + 1]) :
                    res.trace[i + 1][k].in = res.trace[i + 1][k - 1].out
        /\ \A i \in res.n .. MaxPixels - 1 : mem[res.outImg][i] = InitMem[res.outImg][i]
        /\ \A w \in res.written : w[1] < res.n

\* A linear-style apply in place on the whole buffer, with controls that are
\* not neutral, has changed both pixels.
C11_Witness ==
    /\ RanLoop
    /\ cls[res.op] = "GradingToneLinearFwdOpCPU"
    /\ res.outImg = 0
    /\ res.inImg = 0
    /\ res.n = MaxPixels
    /\ UsedParams.v # Neutral
    /\ \A i \in 0 .. res.n - 1 : mem[0][i] # InPixel(i)
    /\ mem[0][1] = C11_OtherBuffer[1]


\* The breakpoints x[0] .. x[5] are strictly increasing.
C12_Increasing(x) == \A k \in 0 .. 4 : FLt(x[k], x[k + 1])

\* C12: in every call of mids for Master with a non-neutral control and
\* strictly increasing breakpoints, for each component t of the triple the
\* Master branch selects the formula the per-channel branch selects for the
\* same t and the same coefficients, a t equal to a breakpoint included, and
\* the two branches return the same result.
C12_MasterAsScalar ==
    (RanLoop \/ res.call = "stage") =>
        \A i \in 1 .. Len(res.trace) : \A k \in 1 .. Len(res.trace[i]) :
            ( /\ res.trace[i][k].st = St("mids", M, FALSE)
              /\ Clamp(UsedParams.v.m_midtones[M], Lit(1, 100), Lit(199, 100)) # One
              /\ C12_Increasing(UsedParams.vpr.m_midX[M]) )
            => \A c \in 0 .. 2 :
                  /\ MidsMasterSelect(res.trace[i][k].in[c], UsedParams.vpr.m_midX[M])
                        = MidsScalarSelect(res.trace[i][k].in[c], UsedParams.vpr.m_midX[M])
                  /\ res.trace[i][k].out[c]
                        = MidsScalar(res.trace[i][k].in[c], UsedParams.vpr.m_midX[M],
                                     UsedParams.vpr.m_midY[M], UsedParams.vpr.m_midM[M])


\* The test value C13 gives for a call: the control for shadows and whites, 2
\* minus the control for highlights and blacks.
C13_Test(st, v) ==
    CASE st.op = "highlightShadow" /\ st.flag -> v.m_shadows[st.ch]
      [] st.op = "highlightShadow" /\ ~st.flag -> FSub(Two, v.m_highlights[st.ch])
      [] st.op = "whiteBlack" /\ ~st.flag -> v.m_whites[st.ch]
      [] st.op = "whiteBlack" /\ st.flag -> FSub(Two, v.m_blacks[st.ch])

\* What the regime for a test value below 1 gives for the value t: compress
\* (highlight / shadow) or decreasing slope (white / black).
C13_Below(st, vpr, t, k) ==
    IF st.op = "highlightShadow"
    THEN ComputeHSLess(vpr.m_hsX[k][st.ch][0], vpr.m_hsX[k][st.ch][1], vpr.m_hsX[k][st.ch][2],
                       vpr.m_hsY[k][st.ch][0], vpr.m_hsY[k][st.ch][1], vpr.m_hsY[k][st.ch][2],
                       vpr.m_hsM[k][st.ch][0], vpr.m_hsM[k][st.ch][1], t,
                       FDiv(FSub(t, vpr.m_hsX[k][st.ch][0]),
                            FSub(vpr.m_hsX[k][st.ch][1], vpr.m_hsX[k][st.ch][0])),
                       FDiv(FSub(t, vpr.m_hsX[k][st.ch][1]),
                            FSub(vpr.m_hsX[k][st.ch][2], vpr.m_hsX[k][st.ch][1])))
    ELSE ComputeWBDec(vpr.m_wbX[k][st.ch][0], vpr.m_wbX[k][st.ch][1],
                      vpr.m_wbY[k][st.ch][0], vpr.m_wbY[k][st.ch][1],
                      vpr.m_wbM[k][st.ch][0], vpr.m_wbM[k][st.ch][1], t)

\* What the regime for a test value above 1 gives: expand, or increasing slope.
C13_Above(st, vpr, t, k) ==
    IF st.op = "highlightShadow"
    THEN ComputeHSGreater(vpr.m_hsX[k][st.ch][0], vpr.m_hsX[k][st.ch][1],
                          vpr.m_hsX[k][st.ch][2], vpr.m_hsY[k][st.ch][0],
                          vpr.m_hsY[k][st.ch][1], vpr.m_hsY[k][st.ch][2],
                          vpr.m_hsM[k][st.ch][0], vpr.m_hsM[k][st.ch][1], t)
    ELSE ComputeWBInc(st.flag, vpr.m_wbX[k][st.ch][0], vpr.m_wbX[k][st.ch][1],
                      vpr.m_wbY[k][st.ch][0], vpr.m_wbY[k][st.ch][1],
                      vpr.m_wbM[k][st.ch][0], vpr.m_wbM[k][st.ch][1],
                      vpr.m_wbGain[k][st.ch], t)

\* One call c of highlightShadow or whiteBlack ran the regime its test value
\* selects, on each component the call computes on.
C13_Regime(c, p, test) ==
    /\ FLt(test, One) =>
          \A i \in Lanes(c.st.ch) :
              c.out[i] = C13_Below(c.st, p.vpr, c.in[i], IF c.st.flag THEN 1 ELSE 0)
    /\ FGt(test, One) =>
          \A i \in Lanes(c.st.ch) :
              c.out[i] = C13_Above(c.st, p.vpr, c.in[i], IF c.st.flag THEN 1 ELSE 0)
    /\ (FLt(test, One) \/ FGt(test, One)) =>
          (c.wr = Lanes(c.st.ch) /\ \A i \in (0 .. 3) \ Lanes(c.st.ch) : c.out[i] = c.in[i])
    /\ test = One => (c.wr = {} /\ c.out = c.in)

\* C13: every call of highlightShadow and of whiteBlack selects its regime
\* by comparing a test value with 1, the test value being the control for
\* shadows and whites and 2 minus the control for highlights and blacks:
\* below 1 it runs the compress regime (highlight / shadow) or the
\* decreasing-slope regime (white / black), above 1 the expand or the
\* increasing-slope regime, and at 1 it writes nothing.
C13_RegimeByTest ==
    (RanLoop \/ res.call = "stage") =>
        \A i \in 1 .. Len(res.trace) : \A k \in 1 .. Len(res.trace[i]) :
            res.trace[i][k].st.op \in {"highlightShadow", "whiteBlack"} =>
                C13_Regime(res.trace[i][k], UsedParams,
                           C13_Test(res.trace[i][k].st, UsedParams.v))

\* A call for the blacks with a control above 1 ran the decreasing-slope
\* regime and changed the component.
C13_Witness ==
    /\ res.call = "stage"
    /\ res.trace[1][1].st = St("whiteBlack", G, TRUE)
    /\ FGt(UsedParams.v.m_blacks[G], One)
    /\ res.trace[1][1].out[G]
          = C13_Below(res.trace[1][1].st, UsedParams.vpr, res.trace[1][1].in[G], 1)
    /\ res.trace[1][1].out[G] # res.trace[1][1].in[G]
    /\ res.trace[1][1].out[G] # C13_Above(res.trace[1][1].st, UsedParams.vpr,
                                         res.trace[1][1].in[G], 1)


\* A coefficient set C14 calls valid: strictly increasing breakpoints, no NaN.
C14_Valid(x, y, m) ==
    /\ C12_Increasing(x)
    /\ \A k \in 0 .. 5 : ~IsNaN(x[k]) /\ ~IsNaN(y[k]) /\ ~IsNaN(m[k])

\* The formula of the segment ending at x[k], at x[k].
C14_Left(x, y, m, k) ==
    HermiteSeg(FDiv(FSub(x[k], x[k - 1]), FSub(x[k], x[k - 1])),
               x[k - 1], x[k], m[k - 1], m[k], y[k - 1])

\* The formula of the segment starting at x[k], at x[k].
C14_Right(x, y, m, k) ==
    HermiteSeg(FDiv(FSub(x[k], x[k]), FSub(x[k + 1], x[k])),
               x[k], x[k + 1], m[k], m[k + 1], y[k])

\* The ordinate of x[k] is the one the segment before it arrives at:
\* y[k] = y[k-1] + (x[k] - x[k-1]) * (m[k-1] + 0.5 * (m[k] - m[k-1])).
C14_Consistent(x, y, m, k) ==
    y[k] = FAdd(FMul(FSub(x[k], x[k - 1]),
                     FAdd(FMul(Half, FSub(m[k], m[k - 1])), m[k - 1])),
                y[k - 1])

\* A call of mids with a control that is not neutral, on a valid table.
C14_MidsCall(c, p) ==
    /\ c.st.op = "mids"
    /\ Clamp(p.v.m_midtones[c.st.ch], Lit(1, 100), Lit(199, 100)) # One
    /\ C14_Valid(p.vpr.m_midX[c.st.ch], p.vpr.m_midY[c.st.ch], p.vpr.m_midM[c.st.ch])

\* C14 as stated: for every valid coefficient set the midtone curve has no
\* discontinuity at an interior breakpoint x1..x4: the segment ending at the
\* breakpoint and the segment starting at it give the same value there.
C14_Continuous ==
    res.call = "stage" =>
        \A k \in 1 .. 4 :
            C14_MidsCall(res.trace[1][1], UsedParams) =>
                C14_Left(UsedParams.vpr.m_midX[res.trace[1][1].st.ch],
                         UsedParams.vpr.m_midY[res.trace[1][1].st.ch],
                         UsedParams.vpr.m_midM[res.trace[1][1].st.ch], k)
                  = C14_Right(UsedParams.vpr.m_midX[res.trace[1][1].st.ch],
                              UsedParams.vpr.m_midY[res.trace[1][1].st.ch],
                              UsedParams.vpr.m_midM[res.trace[1][1].st.ch], k)

\* What the amended C14 says of one call c of mids on the table x, y, m: the
\* two segments meet at x[k] exactly when the ordinate of x[k] is consistent,
\* the segment starting at x[k] gives y[k] there, and a component equal to
\* x[k] is output as y[k] by the Master call, and by a per-channel call at x1
\* and, when the ordinate is consistent and only then, at x2..x4.
C14_At(c, x, y, m, k) ==
    /\ (C14_Left(x, y, m, k) = C14_Right(x, y, m, k)) <=> C14_Consistent(x, y, m, k)
    /\ C14_Right(x, y, m, k) = y[k]
    /\ \A i \in Lanes(c.st.ch) :
          c.in[i] = x[k] =>
              IF c.st.ch = M \/ k = 1
              THEN c.out[i] = y[k]
              ELSE /\ c.out[i] = C14_Left(x, y, m, k)
                   /\ (c.out[i] = y[k]) <=> C14_Consistent(x, y, m, k)

\* C14 amended: for a valid coefficient set the midtone curve has no
\* discontinuity at the interior breakpoint x[k] exactly when
\* y[k] = y[k-1] + (x[k] - x[k-1]) * (m[k-1] + 0.5 * (m[k] - m[k-1]));
\* strictly increasing breakpoints without NaN do not make it so.
C14_ContinuousWhenConsistent ==
    res.call = "stage" =>
        \A k \in 1 .. 4 :
            C14_MidsCall(res.trace[1][1], UsedParams) =>
                C14_At(res.trace[1][1], UsedParams.vpr.m_midX[res.trace[1][1].st.ch],
                       UsedParams.vpr.m_midY[res.trace[1][1].st.ch],
                       UsedParams.vpr.m_midM[res.trace[1][1].st.ch], k)

\* A per-channel call of mids on a component equal to x3 of a table whose
\* ordinates are consistent: the segment ending at x3 gave y3.
C14_Witness ==
    /\ res.call = "stage"
    /\ res.trace[1][1].st = St("mids", B, FALSE)
    /\ C14_MidsCall(res.trace[1][1], UsedParams)
    /\ res.trace[1][1].in[B] = UsedParams.vpr.m_midX[B][3]
    /\ C14_Consistent(UsedParams.vpr.m_midX[B], UsedParams.vpr.m_midY[B],
                      UsedParams.vpr.m_midM[B], 3)
    /\ res.trace[1][1].out[B] = UsedParams.vpr.m_midY[B][3]
    /\ res.trace[1][1].out[B] # res.trace[1][1].in[B]

=============================================================================
